---------------------------- MODULE Spec2Model ----------------------------
(* patch_tuesday: fetch Microsoft CVRF security-update documents, normalize  *)
(* every raw vulnerability into a Vulnerability record, filter and print.    *)
(*                                                                           *)
(* Strings are sequences of one-character strings, so that split, contains   *)
(* and to_lowercase are computed character by character as the code does.    *)
(* Option<T> is [some |-> FALSE] or [some |-> TRUE, val |-> x].              *)
EXTENDS Integers, Sequences, FiniteSets, TLC

VARIABLES
    args,        \* main.rs Args: year, date, product, severity, title, acknowledgement
    pc,          \* position of main
    next,        \* number of urls already pulled from stream::iter(urls)
    task,        \* per url: the spawned fetch task's state and result
    cur,         \* the item the for_each closure is processing
    guard,       \* the holders of the vulns_year mutex: the urls whose result holds it
    vulns_year,  \* the shared accumulator (main.rs:54)
    vulns,       \* main's local list (main.rs:51)
    response,    \* single-date mode: what the request produced so far
    stdout,      \* lines printed with println!
    stderr,      \* lines printed with eprintln!
    exit,        \* process outcome: "running", 0, 1 (Err from main), 101 (panic)
    item,        \* the raw vulnerability handed to From (conversion specification)
    converted,   \* the result of the conversion
    input        \* the list handed to the filter stage (filter specification)

vars == <<args, pc, next, task, cur, guard, vulns_year, vulns, response,
          stdout, stderr, exit, item, converted, input>>

-----------------------------------------------------------------------------
(* Option and string helpers                                                 *)

None == [some |-> FALSE]
Some(x) == [some |-> TRUE, val |-> x]

Str_Yes == <<"Y", "e", "s">>
Str_None == <<"N", "o", "n", "e">>
Str_Description == <<"D", "e", "s", "c", "r", "i", "p", "t", "i", "o", "n">>
Str_Critical == <<"C", "r", "i", "t", "i", "c", "a", "l">>
Str_Important == <<"I", "m", "p", "o", "r", "t", "a", "n", "t">>
Str_Moderate == <<"M", "o", "d", "e", "r", "a", "t", "e">>
Str_High == <<"H", "i", "g", "h">>
Str_Medium == <<"M", "e", "d", "i", "u", "m">>
Str_Low == <<"L", "o", "w">>

UpperChars == <<"A", "B", "C", "D", "E", "F", "G", "H", "I", "J", "K", "L", "M",
                "N", "O", "P", "Q", "R", "S", "T", "U", "V", "W", "X", "Y", "Z">>
LowerChars == <<"a", "b", "c", "d", "e", "f", "g", "h", "i", "j", "k", "l", "m",
                "n", "o", "p", "q", "r", "s", "t", "u", "v", "w", "x", "y", "z">>

\* char::to_lowercase on the ASCII letters; every other character is unchanged
LowerChar(c) ==
    IF \E k \in 1..26 : UpperChars[k] = c
    THEN LowerChars[CHOOSE k \in 1..26 : UpperChars[k] = c]
    ELSE c

\* str::to_lowercase
to_lowercase(s) == [k \in 1..Len(s) |-> LowerChar(s[k])]

\* str::contains(&str)
contains(hay, needle) ==
    \E k \in 1..(Len(hay) - Len(needle) + 1) :
        SubSeq(hay, k, k + Len(needle) - 1) = needle

\* str::split(';'): the fields between the separators, "" gives one empty field
RECURSIVE split(_, _)
split(s, sep) ==
    IF \A k \in 1..Len(s) : s[k] # sep
    THEN <<s>>
    ELSE LET k == CHOOSE i \in 1..Len(s) :
                      s[i] = sep /\ \A j \in 1..(i - 1) : s[j] # sep
         IN <<SubSeq(s, 1, k - 1)>> \o split(SubSeq(s, k + 1, Len(s)), sep)

\* slice.get(i).unwrap_or(&""), i counted from 0
get_or_empty(fields, i) == IF i + 1 <= Len(fields) THEN fields[i + 1] ELSE <<>>

\* iter().find(|x| x.type_ == code): the first element of that type code, as an Option
RECURSIVE find_type(_, _)
find_type(seq, code) ==
    IF seq = <<>> THEN None
    ELSE IF Head(seq).type_ = code THEN Some(Head(seq))
    ELSE find_type(Tail(seq), code)

\* iter().find(|note| note.title == title)
RECURSIVE find_title(_, _)
find_title(seq, title) ==
    IF seq = <<>> THEN None
    ELSE IF Head(seq).title = title THEN Some(Head(seq))
    ELSE find_title(Tail(seq), title)

-----------------------------------------------------------------------------
(* lib.rs: Severity and the conversion From<&cvrf::Vulnerability>            *)

Severities == {"Critical", "Important", "Moderate", "High", "Medium", "Low", "None"}

\* the value names clap derives for the variants of Severity (kebab case)
SeverityName(sev) ==
    CASE sev = "Critical" -> to_lowercase(Str_Critical)
      [] sev = "Important" -> to_lowercase(Str_Important)
      [] sev = "Moderate" -> to_lowercase(Str_Moderate)
      [] sev = "High" -> to_lowercase(Str_High)
      [] sev = "Medium" -> to_lowercase(Str_Medium)
      [] sev = "Low" -> to_lowercase(Str_Low)
      [] sev = "None" -> to_lowercase(Str_None)

\* <Severity as FromStr>::from_str: ValueEnum::from_str(s, ignore_case = true)
ParseSeverity(s) ==
    IF \E sev \in Severities : SeverityName(sev) = to_lowercase(s)
    THEN [ok |-> TRUE,
          val |-> CHOOSE sev \in Severities : SeverityName(sev) = to_lowercase(s)]
    ELSE [ok |-> FALSE]

\* A computation that may panic: [panic |-> TRUE] or [panic |-> FALSE, val |-> x]
Panicked == [panic |-> TRUE]
Returned(x) == [panic |-> FALSE, val |-> x]

\* threats.iter().find(type).and_then(|note| note.description.clone().unwrap().value):
\* the unwrap panics when the found threat has no description
ThreatValue(threats, code) ==
    LET found == find_type(threats, code) IN
    IF ~found.some THEN Returned(None)
    ELSE IF ~found.val.description.some THEN Panicked
    ELSE Returned(found.val.description.val.value)

unwrap_or(opt, default) == IF opt.some THEN opt.val ELSE default

\* lib.rs:87-94
severity_of(it) ==
    LET v == ThreatValue(it.threats, 3) IN
    IF v.panic THEN Panicked
    ELSE LET parsed == ParseSeverity(unwrap_or(v.val, Str_None)) IN
         IF parsed.ok THEN Returned(parsed.val) ELSE Panicked

\* lib.rs:95-98
cvss_of(it) ==
    IF Len(it.cvss_score_sets) >= 1
    THEN Some(it.cvss_score_sets[1].base_score)
    ELSE None

\* lib.rs:99-104
impact_of(it) ==
    LET v == ThreatValue(it.threats, 0) IN
    IF v.panic THEN Panicked ELSE Returned(unwrap_or(v.val, <<>>))

\* lib.rs:105-109
description_of(it) ==
    LET found == find_title(it.notes, Str_Description) IN
    IF found.some THEN found.val.value ELSE None

\* acknowledgments.iter().flat_map(|ack| ack.name.iter()).map(|field| field.value.clone())
RECURSIVE ack_values(_)
ack_values(acks) ==
    IF acks = <<>> THEN <<>>
    ELSE [k \in 1..Len(Head(acks).name) |-> Head(acks).name[k].value]
         \o ack_values(Tail(acks))

\* a collect that drops the missing names instead of voiding the whole field
RECURSIVE collect_present(_)
collect_present(opts) ==
    IF opts = <<>> THEN Some(<<>>)
    ELSE IF ~Head(opts).some THEN collect_present(Tail(opts))
    ELSE Some(Head(opts).val \o collect_present(Tail(opts)).val)

\* Iterator<Item = Option<String>>::collect::<Option<String>>(): None at the
\* first missing item, otherwise the concatenation of the items
RECURSIVE collect_option(_)
collect_option(opts) ==
    IF opts = <<>> THEN Some(<<>>)
    ELSE IF ~Head(opts).some THEN None
    ELSE LET rest == collect_option(Tail(opts)) IN
         IF rest.some THEN Some(Head(opts).val \o rest.val) ELSE None

\* lib.rs:110-115
acknowledgements_of(it) == collect_option(ack_values(it.acknowledgments))

\* lib.rs:116-122
exploitability_fields_of(it) ==
    LET v == ThreatValue(it.threats, 1) IN
    IF v.panic THEN Panicked ELSE Returned(split(unwrap_or(v.val, <<>>), ";"))

\* lib.rs:124
public_of(fields) == contains(get_or_empty(fields, 0), Str_Yes)

\* the second flag read from the first field
exploited_first_field(fields) == contains(get_or_empty(fields, 0), Str_Yes)

\* lib.rs:125
exploited_of(fields) == contains(get_or_empty(fields, 1), Str_Yes)

\* lib.rs:126-131
affected_products_of(it) ==
    LET found == find_type(it.product_statuses, 3) IN
    IF found.some THEN unwrap_or(found.val.product_id, <<>>) ELSE <<>>

\* lib.rs:83-145; the fields are computed in the order of the code, and the
\* first unwrap that fails panics
From(it) ==
    LET severity == severity_of(it)
        impact == impact_of(it)
        fields == exploitability_fields_of(it)
    IN
    IF severity.panic \/ impact.panic \/ fields.panic THEN Panicked
    ELSE Returned([title |-> unwrap_or(it.title.value, <<>>),
                   cve |-> it.cve,
                   severity |-> severity.val,
                   cvss |-> cvss_of(it),
                   impact |-> impact.val,
                   description |-> description_of(it),
                   acknowledgements |-> acknowledgements_of(it),
                   public |-> public_of(fields.val),
                   exploited |-> exploited_of(fields.val),
                   affected_products |-> affected_products_of(it)])

-----------------------------------------------------------------------------
(* Bounded inputs of the conversion                                          *)

MaxThreats == 2
MaxAcks == 2
MaxNames == 2
MaxStatuses == 2

SeqsUpTo(S, n) == UNION {[1..k -> S] : k \in 0..n}

Str_RCE == <<"R", "C", "E">>
Str_11569 == <<"1", "1", "5", "6", "9">>
Str_12086 == <<"1", "2", "0", "8", "6">>
Str_NA == <<"N", "/", "A">>
Str_YesYes == <<"Y", "e", "s", ";", "Y", "e", "s">>
Str_NoYes == <<"N", "o", ";", "Y", "e", "s">>
Str_NoNoYes == <<"N", "o", ";", "N", "o", ";", "Y", "e", "s">>
Str_SemiYes == <<";", "Y", "e", "s">>
\* the shape of "Publicly Disclosed:No;Exploited:Yes;Exploitability:N/A"
Str_Exploitability == <<"P", ":", "N", "o", ";", "E", ":", "Y", "e", "s", ";",
                        "X", ":", "N", "/", "A">>

\* cvrf.rs:221-234, Threat.description: Option<ValueField>, ValueField.value: Option<String>
DescriptionPool ==
    {None, Some([value |-> None])}
    \cup {Some([value |-> Some(str)]) :
            str \in {Str_Critical, Str_NA, Str_Yes, Str_YesYes, Str_NoYes, Str_NoNoYes,
                     Str_SemiYes}}

ThreatPool == [type_ : {0, 1, 2, 3}, description : DescriptionPool]

\* cvrf.rs:290-297, Acknowledgment.name: Vec<ValueField>
NamePool == {[value |-> None], [value |-> Some(<<"A">>)], [value |-> Some(<<"B">>)]}
AcknowledgmentPool == {[name |-> names] : names \in SeqsUpTo(NamePool, MaxNames)}

\* cvrf.rs:212-219, ProductStatus
ProductStatusPool ==
    [type_ : {1, 3},
     product_id : {None, Some(<<Str_11569>>), Some(<<Str_12086, Str_11569>>),
                   Some(<<Str_12086>>)}]

BaseRaw ==
    [title |-> [value |-> Some(Str_RCE)],
     cve |-> <<"C", "V", "E">>,
     notes |-> <<[title |-> Str_Description, value |-> Some(<<"d">>)]>>,
     product_statuses |-> <<>>,
     threats |-> <<>>,
     cvss_score_sets |-> <<[base_score |-> 78]>>,
     acknowledgments |-> <<>>]

\* the scenario of the specification: severity Critical, exploited but not
\* public, affected product 11569 listed after an entry of another type code
ScenarioRaw ==
    [BaseRaw EXCEPT
        !.threats = <<[type_ |-> 3, description |-> Some([value |-> Some(Str_Critical)])],
                      [type_ |-> 1, description |-> Some([value |-> Some(Str_Exploitability)])]>>,
        !.product_statuses = <<[type_ |-> 1, product_id |-> Some(<<Str_12086>>)],
                               [type_ |-> 3, product_id |-> Some(<<Str_11569>>)]>>,
        !.acknowledgments = <<[name |-> <<[value |-> Some(<<"B">>)]>>]>>]

\* the raw vulnerabilities converted: one field varied at a time, and the scenario
ThreatVariants ==
    {[BaseRaw EXCEPT !.threats = th] : th \in SeqsUpTo(ThreatPool, MaxThreats)}
AcknowledgmentVariants ==
    {[BaseRaw EXCEPT !.acknowledgments = acks] :
        acks \in SeqsUpTo(AcknowledgmentPool, MaxAcks)}
ProductStatusVariants ==
    {[BaseRaw EXCEPT !.product_statuses = ps] :
        ps \in SeqsUpTo(ProductStatusPool, MaxStatuses)}
ScenarioVariants ==
    {ScenarioRaw,
     [ScenarioRaw EXCEPT !.title = [value |-> None], !.notes = <<>>,
                         !.cvss_score_sets = <<>>]}

-----------------------------------------------------------------------------
(* The conversion specification: From applied to one raw vulnerability       *)

IdleMain ==
    /\ args = <<>>
    /\ next = 0
    /\ task = <<>>
    /\ cur = None
    /\ guard = {}
    /\ vulns_year = <<>>
    /\ vulns = <<>>
    /\ response = None
    /\ stdout = <<>>
    /\ stderr = <<>>
    /\ exit = None

InitConvert ==
    /\ IdleMain
    /\ pc = "convert"
    /\ \/ item \in ThreatVariants
       \/ item \in AcknowledgmentVariants
       \/ item \in ProductStatusVariants
       \/ item \in ScenarioVariants
    /\ converted = None
    /\ input = <<>>

Convert ==
    /\ pc = "convert"
    /\ converted' = Some(From(item))
    /\ pc' = "converted"
    /\ UNCHANGED <<args, next, task, cur, guard, vulns_year, vulns, response,
                   stdout, stderr, exit, item, input>>

NextConvert == Convert

SpecConvert == InitConvert /\ [][NextConvert]_vars

HasConverted == pc = "converted" /\ converted.some
HasRecord == HasConverted /\ ~converted.val.panic
Record == converted.val.val

\* the index of the first entry of a type code, 0 when there is none
FirstOfType(seq, code) ==
    IF \E k \in 1..Len(seq) : seq[k].type_ = code
    THEN CHOOSE k \in 1..Len(seq) :
            seq[k].type_ = code /\ \A j \in 1..(k - 1) : seq[j].type_ # code
    ELSE 0

DescriptionAbsent(threats, code) ==
    FirstOfType(threats, code) # 0 /\ ~threats[FirstOfType(threats, code)].description.some

\* the description value of the first threat of a type code, "" when there is none
FirstValue(threats, code) ==
    LET k == FirstOfType(threats, code) IN
    IF k = 0 THEN None
    ELSE IF ~threats[k].description.some THEN None
    ELSE threats[k].description.val.value

SixSeverityNames == {Str_Critical, Str_Important, Str_Moderate, Str_High, Str_Medium, Str_Low}

\* C6: normalization is total: every conversion returns a record; the severity
\* is None when there is no type-3 threat, when the first type-3 threat has no
\* description or no description value, and when the value is none of the six
\* severity names; an absent description on the first type-0 or type-1 threat
\* gives the empty impact and public = exploited = false.
C6_NormalizationTotal ==
    HasConverted =>
        /\ ~converted.val.panic
        /\ (\/ ~FirstValue(item.threats, 3).some
            \/ FirstValue(item.threats, 3).val \notin SixSeverityNames)
              => Record.severity = "None"
        /\ DescriptionAbsent(item.threats, 0) => Record.impact = <<>>
        /\ DescriptionAbsent(item.threats, 1) => ~Record.public /\ ~Record.exploited

\* the names of all entries, in entry order then name order
RECURSIVE AllNames(_)
AllNames(acks) ==
    IF acks = <<>> THEN <<>>
    ELSE AllNames(SubSeq(acks, 1, Len(acks) - 1)) \o acks[Len(acks)].name

RECURSIVE Joined(_)
Joined(names) ==
    IF names = <<>> THEN <<>>
    ELSE Joined(SubSeq(names, 1, Len(names) - 1)) \o names[Len(names)].value.val

SomeNameMissing(acks) ==
    \E e \in 1..Len(acks) : \E n \in 1..Len(acks[e].name) : ~acks[e].name[n].value.some

\* C7: when some name of some acknowledgement entry has no value the normalized
\* acknowledgement field is absent; when every name has a value the field is
\* present and is the names joined in entry order then name order.
C7_AcknowledgementsAllOrNothing ==
    HasRecord =>
        IF SomeNameMissing(item.acknowledgments)
        THEN ~Record.acknowledgements.some
        ELSE /\ Record.acknowledgements.some
             /\ Record.acknowledgements.val = Joined(AllNames(item.acknowledgments))

\* a name is missing while another name is present, and the field is absent
C7_Witness ==
    /\ HasRecord
    /\ SomeNameMissing(item.acknowledgments)
    /\ \E e \in 1..Len(item.acknowledgments) :
          \E n \in 1..Len(item.acknowledgments[e].name) :
              item.acknowledgments[e].name[n].value.some
    /\ ~Record.acknowledgements.some

YesAt(d, k) == k + 2 <= Len(d) /\ d[k] = "Y" /\ d[k + 1] = "e" /\ d[k + 2] = "s"
SemicolonsBefore(d, k) == Cardinality({j \in 1..(k - 1) : d[j] = ";"})
\* field number n (from 0) of the semicolon-delimited text d contains Yes
FieldHasYes(d, n) == \E k \in 1..Len(d) : YesAt(d, k) /\ SemicolonsBefore(d, k) = n

ExploitabilityText(threats) ==
    IF FirstValue(threats, 1).some THEN FirstValue(threats, 1).val ELSE <<>>

\* C9: public and exploited come from the first type-1 threat only: public
\* exactly when the first semicolon-delimited field of its description contains
\* Yes, exploited exactly when the second does, false when the threat or the
\* field is missing; the affected products are the product-id list of the first
\* product-status entry of type code 3, empty when there is none.
C9_FlagsAndAffectedProducts ==
    HasRecord =>
        /\ Record.public <=> FieldHasYes(ExploitabilityText(item.threats), 0)
        /\ Record.exploited <=> FieldHasYes(ExploitabilityText(item.threats), 1)
        /\ LET k == FirstOfType(item.product_statuses, 3) IN
           Record.affected_products =
               IF k # 0 /\ item.product_statuses[k].product_id.some
               THEN item.product_statuses[k].product_id.val
               ELSE <<>>

\* the scenario of the specification: exploited but not public, the type-3
\* product status found behind an entry of another type code
C9_Witness ==
    /\ HasRecord
    /\ item = ScenarioRaw
    /\ ~Record.public
    /\ Record.exploited
    /\ Record.affected_products = <<Str_11569>>

-----------------------------------------------------------------------------
(* main.rs:125-157: the filter stage and the printing                        *)

Products == {"All", "Win10_1809_x64", "Win11_22H2_x64"}

\* lib.rs:52-56: args.product as u64
ProductDiscriminant(product) ==
    CASE product = "All" -> 0
      [] product = "Win10_1809_x64" -> 11569
      [] product = "Win11_22H2_x64" -> 12086

Digits == <<"0", "1", "2", "3", "4", "5", "6", "7", "8", "9">>

\* u64::to_string
RECURSIVE to_string(_)
to_string(n) ==
    IF n < 10 THEN <<Digits[n + 1]>>
    ELSE to_string(n \div 10) \o <<Digits[(n % 10) + 1]>>

\* main.rs:126
retain_severity(vs, severity) == SelectSeq(vs, LAMBDA v : v.severity = severity)

\* main.rs:130-135
retain_title(vs, title) ==
    SelectSeq(vs, LAMBDA v : contains(to_lowercase(v.title), to_lowercase(title)))

\* a filter that lets the records without acknowledgement text through
retain_acknowledgement_or_none(vs, acknowledgement) ==
    SelectSeq(vs, LAMBDA v :
        \/ ~v.acknowledgements.some
        \/ contains(to_lowercase(v.acknowledgements.val), to_lowercase(acknowledgement)))

\* main.rs:139-147
retain_acknowledgement(vs, acknowledgement) ==
    SelectSeq(vs, LAMBDA v :
        /\ v.acknowledgements.some
        /\ contains(to_lowercase(v.acknowledgements.val), to_lowercase(acknowledgement)))

\* main.rs:151-154
retain_product(vs, product) ==
    SelectSeq(vs, LAMBDA v :
        \E k \in 1..Len(v.affected_products) :
            v.affected_products[k] = to_string(ProductDiscriminant(product)))

\* main.rs:125-127
FilterSeverity ==
    /\ pc = "filter_severity"
    /\ vulns' = IF args.severity.some THEN retain_severity(vulns, args.severity.val)
                ELSE vulns
    /\ pc' = "filter_title"
    /\ UNCHANGED <<args, next, task, cur, guard, vulns_year, response, stdout, stderr,
                   exit, item, converted, input>>

\* main.rs:129-136
FilterTitle ==
    /\ pc = "filter_title"
    /\ vulns' = IF args.title.some THEN retain_title(vulns, args.title.val) ELSE vulns
    /\ pc' = "filter_acknowledgement"
    /\ UNCHANGED <<args, next, task, cur, guard, vulns_year, response, stdout, stderr,
                   exit, item, converted, input>>

\* main.rs:138-148
FilterAcknowledgement ==
    /\ pc = "filter_acknowledgement"
    /\ vulns' = IF args.acknowledgement.some
                THEN retain_acknowledgement(vulns, args.acknowledgement.val)
                ELSE vulns
    /\ pc' = "filter_product"
    /\ UNCHANGED <<args, next, task, cur, guard, vulns_year, response, stdout, stderr,
                   exit, item, converted, input>>

\* main.rs:150-155
FilterProduct ==
    /\ pc = "filter_product"
    /\ vulns' = IF args.product # "All" THEN retain_product(vulns, args.product)
                ELSE vulns
    /\ pc' = "print"
    /\ UNCHANGED <<args, next, task, cur, guard, vulns_year, response, stdout, stderr,
                   exit, item, converted, input>>

\* lib.rs:23-39: Display for Severity, None is printed as the empty text
SeverityDisplay(sev) ==
    CASE sev = "Critical" -> Str_Critical
      [] sev = "Important" -> Str_Important
      [] sev = "Moderate" -> Str_Moderate
      [] sev = "High" -> Str_High
      [] sev = "Medium" -> Str_Medium
      [] sev = "Low" -> Str_Low
      [] sev = "None" -> <<>>

\* lib.rs:147-167: Display for Vulnerability, as the sequence of its lines
Display(v) ==
    <<<<"", v.title>>, <<"", v.cve>>, <<"Severity: ", SeverityDisplay(v.severity)>>>>
    \o (IF v.cvss.some THEN <<<<"CVSS: ", v.cvss.val>>>> ELSE <<>>)
    \o <<<<"Impact: ", v.impact>>>>
    \o (IF v.description.some THEN <<<<"Description: ", v.description.val>>>> ELSE <<>>)
    \o <<<<"Publicly Disclosed: ", v.public>>, <<"Exploited: ", v.exploited>>>>
    \o (IF v.acknowledgements.some
        THEN <<<<"Acknowledgments: ", v.acknowledgements.val>>>> ELSE <<>>)
    \o <<<<"--------", "">>>>

\* main.rs:157-159
PrintVulns ==
    /\ pc = "print"
    /\ stdout' = stdout \o [k \in 1..Len(vulns) |-> [vuln |-> Display(vulns[k])]]
    /\ exit' = Some(0)
    /\ pc' = "done"
    /\ UNCHANGED <<args, next, task, cur, guard, vulns_year, vulns, response, stderr,
                   item, converted, input>>

-----------------------------------------------------------------------------
(* The filter specification: the filter stage applied to a bounded list      *)

MaxInput == 2

Str_rce == <<"r", "c", "e">>
Str_DoS == <<"D", "o", "S">>
Str_Al == <<"A", "l">>
Str_al == <<"a", "l">>
Str_B == <<"B">>

BaseVuln == (From(ScenarioRaw)).val

\* records the conversion can produce
VulnPool ==
    {BaseVuln,
     [BaseVuln EXCEPT !.title = Str_rce, !.acknowledgements = None],
     [BaseVuln EXCEPT !.title = Str_DoS, !.severity = "Low",
                      !.acknowledgements = Some(Str_Al)],
     [BaseVuln EXCEPT !.severity = "None", !.affected_products = <<>>,
                      !.acknowledgements = Some(Str_Al \o Str_B)],
     [BaseVuln EXCEPT !.title = Str_DoS \o Str_RCE, !.acknowledgements = None,
                      !.affected_products = <<Str_12086, Str_11569>>],
     [BaseVuln EXCEPT !.title = <<>>, !.severity = "Low",
                      !.affected_products = <<Str_12086>>]}

FilterArgsPool ==
    [year : {None},
     date : {<<>>},
     product : Products,
     severity : {None, Some("Critical"), Some("Low")},
     title : {None, Some(Str_RCE), Some(Str_rce), Some(Str_DoS)},
     acknowledgement : {None, Some(Str_al), Some(Str_B)}]

InitFilter ==
    /\ args \in FilterArgsPool
    /\ input \in SeqsUpTo(VulnPool, MaxInput)
    /\ vulns = input
    /\ pc = "filter_severity"
    /\ next = 0
    /\ task = <<>>
    /\ cur = None
    /\ guard = {}
    /\ vulns_year = <<>>
    /\ response = None
    /\ stdout = <<>>
    /\ stderr = <<>>
    /\ exit = None
    /\ item = <<>>
    /\ converted = None

NextFilter ==
    \/ FilterSeverity
    \/ FilterTitle
    \/ FilterAcknowledgement
    \/ FilterProduct
    \/ PrintVulns

SpecFilter == InitFilter /\ [][NextFilter]_vars

\* one filter of the stage, enabled or not as the arguments say
ApplyFilter(name, vs) ==
    CASE name = "severity" ->
            IF args.severity.some THEN retain_severity(vs, args.severity.val) ELSE vs
      [] name = "title" ->
            IF args.title.some THEN retain_title(vs, args.title.val) ELSE vs
      [] name = "acknowledgement" ->
            IF args.acknowledgement.some
            THEN retain_acknowledgement(vs, args.acknowledgement.val) ELSE vs
      [] name = "product" ->
            IF args.product # "All" THEN retain_product(vs, args.product) ELSE vs

FilterNames == {"severity", "title", "acknowledgement", "product"}
FilterOrders == {o \in [1..4 -> FilterNames] : \A i, j \in 1..4 : i # j => o[i] # o[j]}

ApplyInOrder(o, vs) ==
    ApplyFilter(o[4], ApplyFilter(o[3], ApplyFilter(o[2], ApplyFilter(o[1], vs))))

\* sub is obtained from full by removing elements
IsSubsequence(sub, full) ==
    \E keep \in SUBSET (1..Len(full)) :
        /\ Cardinality(keep) = Len(sub)
        /\ \A k \in 1..Len(sub) :
              LET idx == CHOOSE i \in keep : Cardinality({j \in keep : j < i}) = k - 1
              IN sub[k] = full[idx]

\* C8: the four filters commute: the list after the filter stage is the list
\* every order of the enabled filters gives, it is a subsequence of the input
\* with the surviving records unchanged, a record without acknowledgement
\* text never survives the acknowledgement filter, and with the product All
\* the product filter changes nothing.
C8_FiltersCommute ==
    pc \in {"print", "done"} =>
        /\ \A o \in FilterOrders : ApplyInOrder(o, input) = vulns
        /\ IsSubsequence(vulns, input)
        /\ args.acknowledgement.some =>
              \A k \in 1..Len(vulns) : vulns[k].acknowledgements.some
        /\ args.product = "All" => ApplyFilter("product", input) = input

\* several filters are enabled, some record is removed and some record survives
C8_Witness ==
    /\ pc = "print"
    /\ args.severity.some /\ args.title.some
    /\ args.acknowledgement.some /\ args.product # "All"
    /\ Len(input) = 2
    /\ Len(vulns) = 1

-----------------------------------------------------------------------------
(* main.rs:47-123: the program, multi-token mode and single-date mode        *)

\* PARALLEL_REQUESTS is 12 at main.rs:12 and the months array has 12 entries
\* (main.rs:55-57); the model runs the same pipeline with a smaller cap and
\* the first NumMonths months, more urls than the cap allows in flight, and
\* the formulas are stated against the names.
PARALLEL_REQUESTS == 2
NumMonths == 3
MaxVulns == 2

months == <<"Jan", "Feb", "Mar", "Apr", "May", "Jun", "Jul", "Aug", "Sep", "Oct",
            "Nov", "Dec">>

\* main.rs:58-64: months outermost, the years of the argument inside
RECURSIVE flat_map_months(_, _)
flat_map_months(ms, year) ==
    IF ms = <<>> THEN <<>>
    ELSE [k \in 1..Len(year) |-> [year |-> year[k], month |-> Head(ms)]]
         \o flat_map_months(Tail(ms), year)

urls_of(year) == flat_map_months(SubSeq(months, 1, NumMonths), year)

urls == IF args.year.some THEN urls_of(args.year.val) ELSE <<>>
Tokens == 1..Len(urls)

\* a raw vulnerability of the document of url k: severity Low, product 11569
\* affected; the malformed one has a severity threat without a description,
\* as the upstream data sometimes has
WellFormedRaw(k, i) ==
    [BaseRaw EXCEPT
        !.cve = <<k, i>>,
        !.threats = <<[type_ |-> 3, description |-> Some([value |-> Some(Str_Low)])]>>,
        !.product_statuses = <<[type_ |-> 3, product_id |-> Some(<<Str_11569>>)]>>]
MalformedRaw(k, i) ==
    [WellFormedRaw(k, i) EXCEPT !.threats = <<[type_ |-> 3, description |-> None]>>]

\* the documents the server may return for url k (cvrf.rs:4-27, the
\* vulnerability list is the only field main reads): between 1 and MaxVulns
\* vulnerabilities, all well-formed or the last one malformed
DocSize(k) == 1 + (k % MaxVulns)
DocPool(k) ==
    {[i \in 1..DocSize(k) |-> WellFormedRaw(k, i)],
     [i \in 1..DocSize(k) |->
        IF i = DocSize(k) THEN MalformedRaw(k, i) ELSE WellFormedRaw(k, i)]}

Ok(x) == [ok |-> TRUE, val |-> x]
Err(e) == [ok |-> FALSE, err |-> e]

NotSpawned == [st |-> "not_spawned", res |-> None]

\* the futures held by buffer_unordered: spawned and not yet yielded
InProgress == {k \in Tokens : task[k].st \in {"sending", "reading", "done"}}

\* main.rs:49-66 and 105-107
Start ==
    /\ pc = "start"
    /\ pc' = IF args.year.some THEN "poll" ELSE "send"
    /\ UNCHANGED <<args, next, task, cur, guard, vulns_year, vulns, response, stdout, stderr,
                   exit, item, converted, input>>

\* buffer_unordered without the cap: every url is spawned as soon as it is polled
SpawnUncapped ==
    /\ pc = "poll"
    /\ next < Len(urls)
    /\ next' = next + 1
    /\ task' = [task EXCEPT ![next + 1].st = "sending"]
    /\ UNCHANGED <<args, pc, cur, guard, vulns_year, vulns, response, stdout, stderr,
                   exit, item, converted, input>>

\* main.rs:68-86: buffer_unordered pulls the next url and tokio::spawn starts
\* its task while fewer than PARALLEL_REQUESTS futures are in progress
Spawn ==
    /\ pc = "poll"
    /\ next < Len(urls)
    /\ Cardinality(InProgress) < PARALLEL_REQUESTS
    /\ next' = next + 1
    /\ task' = [task EXCEPT ![next + 1].st = "sending"]
    /\ UNCHANGED <<args, pc, cur, guard, vulns_year, vulns, response, stdout, stderr,
                   exit, item, converted, input>>

\* main.rs:72-77: send() fails, the task returns Err(err.to_string())
SendFails(k) ==
    /\ exit = None
    /\ task[k].st = "sending"
    /\ task' = [task EXCEPT ![k] = [st |-> "done",
                                    res |-> Some(Ok(Err([text |-> "transport error", url |-> urls[k]])))]]
    /\ UNCHANGED <<args, pc, next, cur, guard, vulns_year, vulns, response, stdout,
                   stderr, exit, item, converted, input>>

\* main.rs:72-80: a response arrives; a non-success status ends the task
ResponseArrives(k, success) ==
    /\ exit = None
    /\ task[k].st = "sending"
    /\ task' = IF success
               THEN [task EXCEPT ![k].st = "reading"]
               ELSE [task EXCEPT ![k] =
                        [st |-> "done",
                         res |-> Some(Ok(Err([text |-> "No Security Update found for ",
                                              url |-> urls[k]])))]]
    /\ UNCHANGED <<args, pc, next, cur, guard, vulns_year, vulns, response, stdout,
                   stderr, exit, item, converted, input>>

\* main.rs:81-83: the body decodes into a CVRFDocument
BodyDecodes(k, doc) ==
    /\ exit = None
    /\ task[k].st = "reading"
    /\ task' = [task EXCEPT ![k] = [st |-> "done", res |-> Some(Ok(Ok(doc)))]]
    /\ UNCHANGED <<args, pc, next, cur, guard, vulns_year, vulns, response, stdout,
                   stderr, exit, item, converted, input>>

\* main.rs:81-83: the body does not decode
BodyDecodeFails(k) ==
    /\ exit = None
    /\ task[k].st = "reading"
    /\ task' = [task EXCEPT ![k] = [st |-> "done",
                                    res |-> Some(Ok(Err([text |-> "decode error", url |-> urls[k]])))]]
    /\ UNCHANGED <<args, pc, next, cur, guard, vulns_year, vulns, response, stdout,
                   stderr, exit, item, converted, input>>

\* main.rs:71: the spawned task does not run to completion, its JoinHandle
\* resolves to Err(JoinError)
TaskAborts(k) ==
    /\ exit = None
    /\ task[k].st \in {"sending", "reading"}
    /\ task' = [task EXCEPT ![k] = [st |-> "done", res |-> Some(Err("JoinError"))]]
    /\ UNCHANGED <<args, pc, next, cur, guard, vulns_year, vulns, response, stdout,
                   stderr, exit, item, converted, input>>

\* main.rs:86-89: buffer_unordered is full or the urls are exhausted, and
\* hands one finished result to the for_each closure
Yield(k) ==
    /\ pc = "poll"
    /\ next = Len(urls) \/ Cardinality(InProgress) >= PARALLEL_REQUESTS
    /\ task[k].st = "done"
    /\ task' = [task EXCEPT ![k].st = "yielded"]
    /\ cur' = Some([url |-> k, result |-> task[k].res.val])
    /\ pc' = "closure"
    /\ UNCHANGED <<args, next, guard, vulns_year, vulns, response, stdout, stderr, exit,
                   item, converted, input>>

\* main.rs:96: vulns_year.lock().await
Lock ==
    /\ pc = "closure"
    /\ cur.val.result.ok /\ cur.val.result.val.ok
    /\ guard = {}
    /\ guard' = {cur.val.url}
    /\ pc' = "extend"
    /\ UNCHANGED <<args, next, task, cur, vulns_year, vulns, response, stdout, stderr,
                   exit, item, converted, input>>

\* the converted vulnerabilities pushed in reverse
extend_reversed(acc, doc) ==
    LET conv == [i \in 1..Len(doc) |-> From(doc[i])] IN
    IF \E i \in 1..Len(doc) : conv[i].panic THEN Panicked
    ELSE Returned(acc \o [i \in 1..Len(doc) |-> conv[Len(doc) + 1 - i].val])

\* the pushes of the document interleaved with the elements already there, as
\* unsynchronized pushes of two documents would be
extend_interleaved(acc, doc) ==
    LET conv == [i \in 1..Len(doc) |-> From(doc[i])]
        n == IF Len(acc) < Len(doc) THEN Len(acc) ELSE Len(doc)
    IN
    IF \E i \in 1..Len(doc) : conv[i].panic THEN Panicked
    ELSE Returned(SubSeq(acc, 1, Len(acc) - n)
                  \o [j \in 1..(2 * n) |->
                        IF j % 2 = 1 THEN conv[(j + 1) \div 2].val
                        ELSE acc[Len(acc) - n + (j \div 2)]]
                  \o [j \in 1..(Len(doc) - n) |-> conv[n + j].val])

\* main.rs:92-96: Vec::extend over the lazily mapped iterator: every raw
\* vulnerability is converted in document order and pushed; a conversion
\* that panics unwinds out of extend
extend(acc, doc) ==
    LET conv == [i \in 1..Len(doc) |-> From(doc[i])] IN
    IF \E i \in 1..Len(doc) : conv[i].panic THEN Panicked
    ELSE Returned(acc \o [i \in 1..Len(doc) |-> conv[i].val])

PanicLine == [text |-> "thread 'main' panicked", url |-> None]

\* main.rs:91-97: the Ok(Ok(document)) arm under the lock; the guard is
\* dropped at the end of the statement. A panic unwinds main: the guard and
\* vulns_year are dropped and the process ends with the panic exit code.
Extend ==
    /\ pc = "extend"
    /\ \/ /\ extend(vulns_year, cur.val.result.val.val).panic
          /\ vulns_year' = <<>>
          /\ stderr' = Append(stderr, PanicLine)
          /\ exit' = Some(101)
          /\ pc' = "panicked"
       \/ /\ ~extend(vulns_year, cur.val.result.val.val).panic
          /\ vulns_year' = extend(vulns_year, cur.val.result.val.val).val
          /\ pc' = "poll"
          /\ UNCHANGED <<stderr, exit>>
    /\ guard' = {}
    /\ cur' = None
    /\ UNCHANGED <<args, next, task, vulns, response, stdout, item, converted, input>>

\* an error that ends the stream, as a try_for_each would
ReportErrAndStop ==
    /\ pc = "closure"
    /\ cur.val.result.ok /\ ~cur.val.result.val.ok
    /\ stderr' = Append(stderr, [text |-> cur.val.result.val.err.text,
                                 url |-> Some(cur.val.url)])
    /\ cur' = None
    /\ vulns' = vulns_year
    /\ pc' = "filter_severity"
    /\ UNCHANGED <<args, next, task, guard, vulns_year, response, stdout, exit,
                   item, converted, input>>

\* main.rs:98: the Ok(Err(e)) arm, eprintln!("{e}")
ReportErr ==
    /\ pc = "closure"
    /\ cur.val.result.ok /\ ~cur.val.result.val.ok
    /\ stderr' = Append(stderr, [text |-> cur.val.result.val.err.text,
                                 url |-> Some(cur.val.url)])
    /\ cur' = None
    /\ pc' = "poll"
    /\ UNCHANGED <<args, next, task, guard, vulns_year, vulns, response, stdout, exit,
                   item, converted, input>>

\* main.rs:99: the Err(e) arm, eprintln!("Got a tokio::JoinError: {}", e)
ReportJoinError ==
    /\ pc = "closure"
    /\ ~cur.val.result.ok
    /\ stderr' = Append(stderr, [text |-> "Got a tokio::JoinError: ",
                                 url |-> Some(cur.val.url)])
    /\ cur' = None
    /\ pc' = "poll"
    /\ UNCHANGED <<args, next, task, guard, vulns_year, vulns, response, stdout, exit,
                   item, converted, input>>

\* main.rs:102-104: the stream is exhausted and nothing is in progress;
\* vulns = vulns_year.lock().await.clone()
Collect ==
    /\ pc = "poll"
    /\ next = Len(urls)
    /\ InProgress = {}
    /\ guard = {}
    /\ vulns' = vulns_year
    /\ pc' = "filter_severity"
    /\ UNCHANGED <<args, next, task, cur, guard, vulns_year, response, stdout, stderr,
                   exit, item, converted, input>>

\* the line the runtime prints when main returns Err
ErrorLine(text) == [text |-> text, url |-> None]

NoUpdateLine == [text |-> "No Security Update found for ", date |-> args.date]

\* main.rs:106-110: send() fails and ? returns the error from main
RequestFails ==
    /\ pc = "send"
    /\ response' = Some(Err("transport error"))
    /\ stderr' = Append(stderr, ErrorLine("Error: transport error"))
    /\ exit' = Some(1)
    /\ pc' = "done"
    /\ UNCHANGED <<args, next, task, cur, guard, vulns_year, vulns, stdout, item,
                   converted, input>>

\* a response whose status is not checked: the body is decoded whatever it is
RequestRespondsUnchecked(success) ==
    /\ pc = "send"
    /\ response' = Some(Ok([success |-> success, body |-> None]))
    /\ pc' = "decode"
    /\ UNCHANGED <<args, next, task, cur, guard, vulns_year, vulns, stdout, stderr, exit,
                   item, converted, input>>

\* main.rs:106-115: a response arrives; a non-success status prints the
\* message and returns Ok(())
RequestResponds(success) ==
    /\ pc = "send"
    /\ response' = Some(Ok([success |-> success, body |-> None]))
    /\ IF success
       THEN /\ pc' = "decode"
            /\ UNCHANGED <<stdout, exit>>
       ELSE /\ stdout' = Append(stdout, NoUpdateLine)
            /\ exit' = Some(0)
            /\ pc' = "done"
    /\ UNCHANGED <<args, next, task, cur, guard, vulns_year, vulns, stderr, item,
                   converted, input>>

\* main.rs:116: the body does not decode and ? returns the error from main
DecodeFails ==
    /\ pc = "decode"
    /\ response' = Some(Ok([response.val.val EXCEPT !.body = Some(Err("decode error"))]))
    /\ stderr' = Append(stderr, ErrorLine("Error: decode error"))
    /\ exit' = Some(1)
    /\ pc' = "done"
    /\ UNCHANGED <<args, next, task, cur, guard, vulns_year, vulns, stdout, item,
                   converted, input>>

\* main.rs:116: the body decodes into a CVRFDocument
Decodes(doc) ==
    /\ pc = "decode"
    /\ response' = Some(Ok([response.val.val EXCEPT !.body = Some(Ok(doc))]))
    /\ pc' = "normalize"
    /\ UNCHANGED <<args, next, task, cur, guard, vulns_year, vulns, stdout, stderr, exit,
                   item, converted, input>>

\* main.rs:118-122: iter().map(Vulnerability::from).collect()
collect_vulns(doc) ==
    LET conv == [i \in 1..Len(doc) |-> From(doc[i])] IN
    IF \E i \in 1..Len(doc) : conv[i].panic THEN Panicked
    ELSE Returned([i \in 1..Len(doc) |-> conv[i].val])

\* main.rs:118-122; a conversion that panics unwinds main
Normalize ==
    /\ pc = "normalize"
    /\ \/ /\ collect_vulns(response.val.val.body.val.val).panic
          /\ stderr' = Append(stderr, PanicLine)
          /\ exit' = Some(101)
          /\ pc' = "panicked"
          /\ UNCHANGED vulns
       \/ /\ ~collect_vulns(response.val.val.body.val.val).panic
          /\ vulns' = collect_vulns(response.val.val.body.val.val).val
          /\ pc' = "filter_severity"
          /\ UNCHANGED <<stderr, exit>>
    /\ UNCHANGED <<args, next, task, cur, guard, vulns_year, response, stdout, item,
                   converted, input>>

Str_date == <<"2", "0", "2", "1", "-", "J", "a", "n">>

\* the command lines of the runs: --year 2021, or a single date
MainArgsPool ==
    [year : {Some(<<2021>>)},
     date : {<<>>},
     product : {"Win10_1809_x64"},
     severity : {None},
     title : {None},
     acknowledgement : {None}]
    \cup
    [year : {None},
     date : {Str_date},
     product : {"All", "Win10_1809_x64"},
     severity : {None, Some("Critical")},
     title : {None},
     acknowledgement : {None}]

Init ==
    /\ args \in MainArgsPool
    /\ pc = "start"
    /\ next = 0
    /\ task = [k \in Tokens |-> NotSpawned]
    /\ cur = None
    /\ guard = {}
    /\ vulns_year = <<>>
    /\ vulns = <<>>
    /\ response = None
    /\ stdout = <<>>
    /\ stderr = <<>>
    /\ exit = None
    /\ item = <<>>
    /\ converted = None
    /\ input = <<>>

Next ==
    \/ Start
    \/ Spawn
    \/ \E k \in Tokens : SendFails(k)
    \/ \E k \in Tokens : \E success \in BOOLEAN : ResponseArrives(k, success)
    \/ \E k \in {t \in Tokens : task[t].st = "reading"} :
          \E doc \in DocPool(k) : BodyDecodes(k, doc)
    \/ \E k \in Tokens : BodyDecodeFails(k)
    \/ \E k \in Tokens : TaskAborts(k)
    \/ \E k \in Tokens : Yield(k)
    \/ Lock
    \/ Extend
    \/ ReportErr
    \/ ReportJoinError
    \/ Collect
    \/ RequestFails
    \/ \E success \in BOOLEAN : RequestResponds(success)
    \/ DecodeFails
    \/ \E doc \in DocPool(0) : Decodes(doc)
    \/ Normalize
    \/ FilterSeverity
    \/ FilterTitle
    \/ FilterAcknowledgement
    \/ FilterProduct
    \/ PrintVulns

Spec == Init /\ [][Next]_vars

\* every enabled step is eventually taken: the runtime schedules every task
\* and every request returns an outcome
FairSpec == Spec /\ WF_vars(Next)

-----------------------------------------------------------------------------
(* Claims about the program                                                  *)

MultiMode == args.year.some
Outcome(k) == task[k].res
Succeeded(k) == Outcome(k).some /\ Outcome(k).val.ok /\ Outcome(k).val.val.ok
Failed(k) == Outcome(k).some /\ ~Succeeded(k)
DocOf(k) == Outcome(k).val.val.val
Yielded == {k \in Tokens : task[k].st = "yielded"}

\* the positions of list at which the vulnerability i of the document of url k stands
Positions(list, k, i) == {j \in 1..Len(list) : list[j].cve = <<k, i>>}

Aggregated == MultiMode /\ pc = "filter_severity"

\* C1: when the aggregation has finished, every url has an outcome, the list
\* holds every vulnerability of every successful document exactly once, as
\* converted, and holds nothing of a url that failed.
C1_ExactlyTheSuccessfulPeriods ==
    Aggregated =>
        /\ vulns = vulns_year
        /\ \A k \in Tokens : Outcome(k).some
        /\ \A k \in Tokens : Succeeded(k) =>
              \A i \in 1..Len(DocOf(k)) :
                  /\ Cardinality(Positions(vulns, k, i)) = 1
                  /\ \A j \in Positions(vulns, k, i) : vulns[j] = From(DocOf(k)[i]).val
        /\ \A j \in 1..Len(vulns) :
              /\ vulns[j].cve[1] \in Tokens
              /\ Succeeded(vulns[j].cve[1])
              /\ vulns[j].cve[2] \in 1..Len(DocOf(vulns[j].cve[1]))

\* one url failed at each step of the fetch and another one contributed
C1_Witness ==
    /\ Aggregated
    /\ \E k \in Tokens : Failed(k) /\ Outcome(k).val.ok
                         /\ Outcome(k).val.val.err.text = "decode error"
    /\ \E k \in Tokens : Failed(k) /\ Outcome(k).val.ok
                         /\ Outcome(k).val.val.err.text = "No Security Update found for "
    /\ \E k \in Tokens : Succeeded(k) /\ Len(DocOf(k)) = 2
    /\ Len(vulns) = 2

\* C2: at most PARALLEL_REQUESTS fetch tasks are started and not yet handed to
\* the aggregation step, and a url beyond the first PARALLEL_REQUESTS is
\* started only after enough earlier results have been handed over.
C2_BoundedInFlight ==
    MultiMode =>
        /\ Cardinality(InProgress) <= PARALLEL_REQUESTS
        /\ \A k \in Tokens :
              (k > PARALLEL_REQUESTS /\ task[k].st # "not_spawned")
                  => Cardinality(Yielded) >= k - PARALLEL_REQUESTS

\* the cap is reached with urls left, and the last url is started after a slot was freed
C2_Witness ==
    /\ MultiMode
    /\ Len(urls) > PARALLEL_REQUESTS
    /\ task[Len(urls)].st = "sending"
    /\ Cardinality(InProgress) = PARALLEL_REQUESTS

Contributed(k) ==
    /\ Succeeded(k)
    /\ \A i \in 1..Len(DocOf(k)) : Cardinality(Positions(vulns_year, k, i)) = 1
Diagnostics(k) == Cardinality({j \in 1..Len(stderr) : stderr[j].url = Some(k)})

\* every url has contributed its document and emitted no diagnostic line, or
\* has emitted exactly one line and contributed nothing
AllResolved ==
    /\ \A k \in Tokens :
          \/ Contributed(k) /\ Diagnostics(k) = 0
          \/ Failed(k) /\ Diagnostics(k) = 1
             /\ \A j \in 1..Len(vulns_year) : vulns_year[j].cve[1] # k
    /\ Len(stderr) = Cardinality({k \in Tokens : Failed(k)})

\* C3: under fair scheduling every url is eventually resolved exactly once and
\* the run reaches the filter stage: each url has contributed its document
\* or emitted exactly one diagnostic line, never both and never neither, and
\* the diagnostic lines are as many as the failed urls.
C3_EveryTokenResolved == <>(MultiMode => (pc = "filter_severity" /\ AllResolved))

OrderPreserved(list) ==
    \A a, b \in 1..Len(list) :
        (a < b /\ list[a].cve[1] = list[b].cve[1]) => list[a].cve[2] < list[b].cve[2]

\* C4: the mutex has at most one holder, it is held exactly while the
\* accumulator is extended, and two vulnerabilities of one document stand in
\* the accumulator, and in the final list, in the order of their document.
C4_ExclusiveAppendKeepsDocumentOrder ==
    MultiMode =>
        /\ Cardinality(guard) <= 1
        /\ (guard # {}) <=> (pc = "extend")
        /\ OrderPreserved(vulns_year)
        /\ Aggregated => OrderPreserved(vulns)

\* a later url's document was appended before an earlier url's, each in its own order
C4_Witness ==
    /\ Aggregated
    /\ Len(vulns) = 4
    /\ vulns[1].cve = <<3, 1>> /\ vulns[2].cve = <<3, 2>>
    /\ vulns[3].cve = <<1, 1>> /\ vulns[4].cve = <<1, 2>>

SingleMode == ~args.year.some
Responded == response.some /\ response.val.ok
PrintedVulns == {j \in 1..Len(stdout) : "vuln" \in DOMAIN stdout[j]}
Stopped == pc = "done" /\ exit.some

\* C5: in single-date mode a non-success status prints the message and ends
\* the run with outcome zero, nothing decoded, filtered or printed; a
\* transport or decode error ends it with a non-zero outcome and no
\* vulnerability printed; only a success status with a decoded body reaches
\* the normalization and the filter stage.
C5_SingleOutcome ==
    SingleMode =>
        /\ (Responded /\ ~response.val.val.success) =>
              /\ Stopped /\ exit.val = 0
              /\ stdout = <<NoUpdateLine>>
              /\ ~response.val.val.body.some
              /\ vulns = <<>>
        /\ (response.some /\ ~response.val.ok) =>
              /\ Stopped /\ exit.val # 0
              /\ PrintedVulns = {} /\ vulns = <<>>
        /\ (Responded /\ response.val.val.body.some /\ ~response.val.val.body.val.ok) =>
              /\ Stopped /\ exit.val # 0
              /\ PrintedVulns = {} /\ vulns = <<>>
        /\ (pc \in {"normalize", "filter_severity", "filter_title",
                    "filter_acknowledgement", "filter_product", "print"}
            \/ PrintedVulns # {}) =>
              /\ Responded /\ response.val.val.success
              /\ response.val.val.body.some /\ response.val.val.body.val.ok

\* the request returned a non-success status and the run ended cleanly
C5_Witness ==
    /\ SingleMode
    /\ Responded /\ ~response.val.val.success
    /\ Stopped /\ exit.val = 0
    /\ stdout = <<NoUpdateLine>>

\* C10: the accumulator is a concatenation of whole converted documents of
\* distinct urls: every element is a vulnerability of a successful document,
\* no vulnerability stands twice, each is preceded by its predecessor in the
\* document and followed by its successor; the mutex has at most one holder.
C10_WholeDocumentBlocks ==
    MultiMode =>
        /\ Cardinality(guard) <= 1
        /\ \A j \in 1..Len(vulns_year) :
              LET k == vulns_year[j].cve[1]
                  i == vulns_year[j].cve[2]
              IN /\ k \in Tokens /\ Succeeded(k) /\ i \in 1..Len(DocOf(k))
                 /\ vulns_year[j] = From(DocOf(k)[i]).val
                 /\ Positions(vulns_year, k, i) = {j}
                 /\ i > 1 => (j > 1 /\ vulns_year[j - 1].cve = <<k, i - 1>>)
                 /\ i < Len(DocOf(k)) =>
                       (j < Len(vulns_year) /\ vulns_year[j + 1].cve = <<k, i + 1>>)

\* the documents of two urls, one of two vulnerabilities, are in the accumulator
\* while the result of the third url is being appended under the lock
C10_Witness ==
    /\ MultiMode
    /\ pc = "extend"
    /\ Cardinality(guard) = 1
    /\ Len(vulns_year) = 3
    /\ vulns_year[1].cve[1] # vulns_year[3].cve[1]

=============================================================================
